---- MODULE Spec2Model ----
(***************************************************************************)
(* Accounting and distribution engine of the USDT red-packet bot:          *)
(* database.py (ledger store, add_balance, create_withdrawal_request),     *)
(* bot.py (deposit watcher, red-packet creation and grabbing),             *)
(* monitor.py (deposit matching, expiry sweeps) and admin.py (manual       *)
(* deposit / withdrawal handling).                                         *)
(*                                                                         *)
(* The store is modelled with PostgreSQL READ COMMITTED semantics, the     *)
(* engine database.py targets: every statement sees the rows committed at  *)
(* the time it runs, SELECT ... FOR UPDATE takes a row lock held until the *)
(* transaction ends, an ORM flush writes the attribute values computed in  *)
(* Python (UPDATE ... SET balance = <value>), and a write to a row locked  *)
(* by another transaction waits for that transaction to end.               *)
(***************************************************************************)
EXTENDS Integers, Sequences, FiniteSets, Bags, TLC

(***************************************************************************)
(* Bounds of the model.                                                    *)
(***************************************************************************)
MaxProcs == 2      \* handlers in flight at the same time
MaxOps == 3        \* handler invocations in one behaviour
MaxPackets == 1    \* red packets created in one behaviour
MaxTicks == 1      \* times the clock is advanced in one behaviour
MaxOrders == 2     \* deposit orders created in one behaviour
MaxReviews == 1    \* admin decisions on deposit orders in one behaviour

Procs == 1..MaxProcs                   \* request handlers (bot callbacks, admin API)
Monitor == MaxProcs + 1                \* monitor.py main loop
Watcher == MaxProcs + 2                \* bot.py watch_deposits task
AllProcs == 1..(MaxProcs + 2)
Accounts == {1, 2}                     \* tg_id values
NoLock == 0

(***************************************************************************)
(* Program constants.                                                      *)
(***************************************************************************)
BonusDb == 500000                      \* parse_credits(0.5), the sign-up bonus
MinPacketDb == 100000                  \* smallest red packet, 0.1 USDT
RiskBalance == 5000000                 \* balance a mine packet asks of a grabber
PacketTtl == 720                       \* minutes before a red packet is refunded
DepositTtl == 15                       \* minutes before a pending deposit order expires
WatchAddress == "TEhcSVUBxrXmAwQKKhruae1PLE8S8Ja7dG"   \* the collection address

VARIABLES
    users,          \* table users: tg_id -> [exists, balance]
    transactions,   \* table transactions: a bag of [user_id, amount, type, note]
    deposits,       \* table deposits: sequence of rows, id = index
    withdrawals,    \* table withdrawals: sequence of rows, id = index
    red_packets,    \* table red_packets: sequence of rows, id = index
    ulock,          \* row locks of users: tg_id -> the handler holding it
    plock,          \* row locks of red_packets: id -> the handler holding it
    procs,          \* every task's position and locals (handlers, monitor, watcher)
    clock,          \* wall clock, in minutes
    ticks,          \* times the clock was advanced
    started,        \* handler invocations so far
    credits         \* history: the deposit credits applied, [tx, order, amount, path]

vars == <<users, transactions, deposits, withdrawals, red_packets, ulock, plock,
          procs, clock, ticks, started, credits>>

dbvars == <<users, transactions, deposits, withdrawals, red_packets>>

Idle == [pc |-> "idle"]

(***************************************************************************)
(* Helpers.                                                                *)
(***************************************************************************)
Transaction(user_id, amount, type, note) ==
    [user_id |-> user_id, amount |-> amount, type |-> type, note |-> note]

AddRow(bag, row) == bag (+) SetToBag({row})

RECURSIVE SumRows(_, _)
SumRows(rows, bag) ==
    IF rows = {} THEN 0
    ELSE LET r == CHOOSE x \in rows : TRUE
         IN  r.amount * CopiesIn(r, bag) + SumRows(rows \ {r}, bag)

RECURSIVE CountRows(_, _)
CountRows(rows, bag) ==
    IF rows = {} THEN 0
    ELSE LET r == CHOOSE x \in rows : TRUE
         IN  CopiesIn(r, bag) + CountRows(rows \ {r}, bag)

\* The ledger entries of one account, their sum and their number.
LedgerRows(u) == {r \in BagToSet(transactions) : r.user_id = u}

LedgerSum(u) == SumRows(LedgerRows(u), transactions)

LedgerCount(u) == CountRows(LedgerRows(u), transactions)

User(exists, balance) == [exists |-> exists, balance |-> balance]

\* A handler may start: invocations left, and p the first free slot.
CanStart(p) ==
    /\ procs[p].pc = "idle"
    /\ started < MaxOps
    /\ \A q \in Procs : q < p => procs[q].pc # "idle"

\* What is left of a grab_packet frame once the handler has answered.
GrabDone(f, answer) ==
    [pc |-> "done", op |-> f.op, packet_id |-> f.packet_id, user_id |-> f.user_id,
     grab_db |-> f.grab_db, hit |-> f.hit, waited |-> f.waited, answer |-> answer]

Init ==
    /\ users = [u \in Accounts |-> User(FALSE, 0)]
    /\ transactions = EmptyBag
    /\ deposits = <<>>
    /\ withdrawals = <<>>
    /\ red_packets = <<>>
    /\ ulock = [u \in Accounts |-> NoLock]
    /\ plock = <<>>
    /\ procs = [p \in AllProcs |-> Idle]
    /\ clock = 0
    /\ ticks = 0
    /\ started = 0
    /\ credits = EmptyBag

\* What a step of the balance and withdrawal code leaves alone.
OtherTables == <<deposits, red_packets, plock, clock, ticks, credits>>

(***************************************************************************)
(* bot.py cmd_start: the first /start of an account creates its row with   *)
(* the bonus and the matching ledger entry in one commit.                  *)
(***************************************************************************)
CmdStart(u) ==
    /\ ~users[u].exists
    /\ users' = [users EXCEPT ![u] = User(TRUE, BonusDb)]
    /\ transactions' = AddRow(transactions,
                              Transaction(u, BonusDb, "system_bonus", "bonus"))
    /\ UNCHANGED <<withdrawals, ulock, procs, started>>
    /\ UNCHANGED OtherTables

(***************************************************************************)
(* Row locks of table users.  SELECT ... FOR UPDATE, and the UPDATE of a   *)
(* flush, wait while another transaction holds the row.                    *)
(***************************************************************************)
\* Mutant: the SELECT without with_for_update() waits for nobody.
UserRowNeverWaits(u, p) == TRUE

UserRowFree(u, p) == ulock[u] = NoLock \/ ulock[u] = p

ReleaseUser(locks, p) == [u \in Accounts |-> IF locks[u] = p THEN NoLock ELSE locks[u]]

(***************************************************************************)
(* database.py add_balance(tg_id, amount, tx_type, note).                  *)
(* A call is a frame in the caller's slot; on return the caller continues  *)
(* at frame.ret with frame.success set.                                    *)
(***************************************************************************)
AbFrame(tg_id, amount, tx_type, note, ret) ==
    [pc |-> "ab_select", tg_id |-> tg_id, amount |-> amount, tx_type |-> tx_type,
     note |-> note, ret |-> ret, found |-> FALSE, bal |-> 0, success |-> "none"]

\* History: one deposit credit, the transfer and the order it was made for.
DepositCredit(tx_hash, order_id, amount, path) ==
    [tx_hash |-> tx_hash, order_id |-> order_id, amount |-> amount, path |-> path]

\* select(User).with_for_update(); the row is created locally when missing.
AddBalanceSelect(p) ==
    LET f == procs[p]
        u == f.tg_id
    IN  /\ f.pc = "ab_select"
        /\ IF users[u].exists
           THEN /\ UserRowFree(u, p)
                /\ ulock' = [ulock EXCEPT ![u] = p]
                /\ procs' = [procs EXCEPT ![p] = [f EXCEPT !.pc = "ab_write",
                                 !.found = TRUE, !.bal = users[u].balance]]
           ELSE /\ ulock' = ulock
                /\ procs' = [procs EXCEPT ![p] = [f EXCEPT !.pc = "ab_write",
                                 !.found = FALSE, !.bal = 0]]
        /\ UNCHANGED <<users, transactions, withdrawals, started>>
        /\ UNCHANGED OtherTables

\* The balance check of add_balance: a debit the read balance does not cover.
AbInsufficient(bal, amount) == amount < 0 /\ bal + amount < 0

\* The check, the write and the end of the transaction.  Both `return`s leave
\* session.begin() normally, so both commit: a row created for a missing
\* account is inserted even when the debit is refused.  The INSERT of a row
\* that exists by now violates the unique tg_id and raises.
AddBalanceCommit(p) ==
    LET f == procs[p]
        u == f.tg_id
        conflict == ~f.found /\ users[u].exists
        refused == AbInsufficient(f.bal, f.amount)
        result == IF conflict THEN "error" ELSE IF refused THEN "insufficient" ELSE "ok"
    IN  /\ f.pc = "ab_write"
        /\ users' = IF conflict THEN users
                    ELSE IF refused THEN [users EXCEPT ![u] = User(TRUE, f.bal)]
                    ELSE [users EXCEPT ![u] = User(TRUE, f.bal + f.amount)]
        /\ transactions' = IF result = "ok"
                           THEN AddRow(transactions,
                                       Transaction(u, f.amount, f.tx_type, f.note))
                           ELSE transactions
        /\ ulock' = ReleaseUser(ulock, p)
        /\ procs' = [procs EXCEPT ![p] = [f EXCEPT !.pc = f.ret, !.success = result]]
        /\ credits' = IF result = "ok" /\ f.op \in {"process_chain_txs", "handle_deposit"}
                      THEN AddRow(credits, DepositCredit(f.tx_hash, f.order_id,
                                                         f.amount, f.op))
                      ELSE credits
        /\ UNCHANGED <<withdrawals, started, deposits, red_packets, plock, clock, ticks>>

\* A direct call of the exported function.
AddBalanceCall(p, u, amount) ==
    /\ CanStart(p)
    /\ procs' = [procs EXCEPT ![p] =
                    [op |-> "add_balance"] @@ AbFrame(u, amount, "adjust", "call", "done")]
    /\ started' = started + 1
    /\ UNCHANGED <<users, transactions, withdrawals, ulock>>
    /\ UNCHANGED OtherTables

(***************************************************************************)
(* database.py create_withdrawal_request(user_id, amount, wallet_address).  *)
(***************************************************************************)
Withdrawal(user_id, amount, status) ==
    [user_id |-> user_id, amount |-> amount, status |-> status]

CreateWithdrawalCall(p, u, amount) ==
    /\ CanStart(p)
    /\ procs' = [procs EXCEPT ![p] =
                    [op |-> "create_withdrawal_request", pc |-> "cw_select",
                     user_id |-> u, amount |-> amount, bal |-> 0, success |-> "none"]]
    /\ started' = started + 1
    /\ UNCHANGED <<users, transactions, withdrawals, ulock>>
    /\ UNCHANGED OtherTables

\* select(User).with_for_update(); `if not user: return None`.
CreateWithdrawalSelect(p) ==
    LET f == procs[p]
        u == f.user_id
    IN  /\ f.pc = "cw_select"
        /\ IF users[u].exists
           THEN /\ UserRowFree(u, p)
                /\ ulock' = [ulock EXCEPT ![u] = p]
                /\ procs' = [procs EXCEPT ![p] = [f EXCEPT !.pc = "cw_write",
                                 !.bal = users[u].balance]]
           ELSE /\ ulock' = ulock
                /\ procs' = [procs EXCEPT ![p] = [f EXCEPT !.pc = "done",
                                 !.success = "no_user"]]
        /\ UNCHANGED <<users, transactions, withdrawals, started>>
        /\ UNCHANGED OtherTables

\* Mutant: the check written with the sign of add_balance's.
CwInsufficientSign(bal, amount) == bal + amount < 0

\* `if user.balance < amount: return None, "余额不足"`.
CwInsufficient(bal, amount) == bal < amount

\* The check, the freeze, its ledger entry and the request row, in one commit.
CreateWithdrawalCommit(p) ==
    LET f == procs[p]
        u == f.user_id
        refused == CwInsufficient(f.bal, f.amount)
    IN  /\ f.pc = "cw_write"
        /\ IF refused
           THEN UNCHANGED <<users, transactions, withdrawals>>
           ELSE /\ users' = [users EXCEPT ![u] = User(TRUE, f.bal - f.amount)]
                /\ transactions' = AddRow(transactions,
                       Transaction(u, -f.amount, "withdraw_freeze", "freeze"))
                /\ withdrawals' = Append(withdrawals,
                                         Withdrawal(u, f.amount, "pending"))
        /\ ulock' = ReleaseUser(ulock, p)
        /\ procs' = [procs EXCEPT ![p] = [f EXCEPT !.pc = "done",
                         !.success = IF refused THEN "insufficient" ELSE "ok"]]
        /\ UNCHANGED started
        /\ UNCHANGED OtherTables

\* The handler has returned; its slot is free again.
Finish(p) ==
    /\ procs[p].pc = "done"
    /\ procs' = [procs EXCEPT ![p] = Idle]
    /\ UNCHANGED <<users, transactions, withdrawals, ulock, started>>
    /\ UNCHANGED OtherTables

(***************************************************************************)
(* Time.  The sweeps compare created_at with datetime.now() minus a        *)
(* lifetime; the clock is advanced past one lifetime at a time.            *)
(***************************************************************************)
Tick(d) ==
    /\ ticks < MaxTicks
    /\ clock' = clock + d
    /\ ticks' = ticks + 1
    /\ UNCHANGED <<users, transactions, deposits, withdrawals, red_packets,
                   ulock, plock, procs, started, credits>>

(***************************************************************************)
(* bot.py process_packet_mine: the sender is debited the nominal amount    *)
(* through add_balance, then the packet row is inserted in a transaction   *)
(* of its own.                                                             *)
(***************************************************************************)
\* int(amount_db * (1 - 0.05)); equal to the integer quotient for the amounts used.
PacketTotal(amount_db) == (amount_db * 95) \div 100

RedPacket(sender_id, total, count, mine, created_at) ==
    [sender_id |-> sender_id, total_amount |-> total, total_count |-> count,
     remaining_amount |-> total, remaining_count |-> count, status |-> "active",
     claimed_users |-> <<>>, mine_number |-> mine, created_at |-> created_at]

\* The handlers that are sending a packet.
Sending ==
    {q \in Procs : procs[q].pc \in {"ab_select", "ab_write", "pm_after"}
                   /\ procs[q].op = "process_packet_mine"}

\* The dialogue reaches this handler only for an account that has used /start,
\* with amount_db >= 100000 (process_packet_amount), count >= 2
\* (process_packet_count) and -1 <= mine <= 9.
ProcessPacketMine(p, u, amount_db, count, mine) ==
    /\ CanStart(p)
    /\ users[u].exists
    /\ amount_db >= MinPacketDb /\ count >= 2 /\ mine >= -1 /\ mine <= 9
    /\ Len(red_packets) + Cardinality(Sending) < MaxPackets
    /\ procs' = [procs EXCEPT ![p] =
                    [op |-> "process_packet_mine", user_id |-> u, amount_db |-> amount_db,
                     count |-> count, mine |-> mine,
                     packet_total_db |-> PacketTotal(amount_db)]
                    @@ AbFrame(u, -amount_db, "send_packet", mine, "pm_after")]
    /\ started' = started + 1
    /\ UNCHANGED <<users, transactions, withdrawals, ulock>>
    /\ UNCHANGED OtherTables

\* Mutant: the result of the debit is not looked at.
DebitFailedIgnored(success) == FALSE

\* `if not success: return` (an exception of add_balance ends the handler too).
DebitFailed(success) == success # "ok"

\* The debit failed and the handler returns, or session.add(packet) and commit.
PacketInsert(p) ==
    LET f == procs[p]
    IN  /\ f.pc = "pm_after"
        /\ IF DebitFailed(f.success)
           THEN UNCHANGED <<red_packets, plock>>
           ELSE /\ red_packets' = Append(red_packets,
                        RedPacket(f.user_id, f.packet_total_db, f.count, f.mine, clock))
                /\ plock' = Append(plock, NoLock)
        /\ procs' = [procs EXCEPT ![p] =
                        [pc |-> "done", op |-> f.op, user_id |-> f.user_id,
                         amount_db |-> f.amount_db, success |-> f.success]]
        /\ UNCHANGED <<users, transactions, deposits, withdrawals, ulock, clock,
                       ticks, started, credits>>

(***************************************************************************)
(* bot.py grab_packet.                                                     *)
(***************************************************************************)
Range(seq) == {seq[i] : i \in DOMAIN seq}

\* Mutant: the packet read without with_for_update() waits for nobody.
PacketRowNeverWaits(pk, p) == TRUE

PacketRowFree(pk, p) == plock[pk] = NoLock \/ plock[pk] = p

ReleasePacket(locks, p) ==
    [pk \in DOMAIN locks |-> IF locks[pk] = p THEN NoLock ELSE locks[pk]]

\* The outcomes of random.randint(lo, hi) the model draws: both ends and one
\* value whose hundreds digit is 3.
RandInt(lo, hi) == {x \in {lo, 300, hi} : lo <= x /\ x <= hi}

\* Lines 402-406: the last slot takes the remainder; otherwise a draw from
\* [1, int(avg * 2)], cut to remaining_amount - 1.  int(avg * 2) is the integer
\* quotient of 2 * remaining_amount by remaining_count.
GrabClamp(grab_db, remaining_amount) ==
    IF grab_db >= remaining_amount THEN remaining_amount - 1 ELSE grab_db

GrabAmounts(remaining_amount, remaining_count) ==
    IF remaining_count = 1 THEN {remaining_amount}
    ELSE {GrabClamp(g, remaining_amount) :
            g \in RandInt(1, (2 * remaining_amount) \div remaining_count)}

\* int((grab_db // 100) % 10)
LastDigit(grab_db) == (grab_db \div 100) % 10

\* int(packet.total_amount * 1.5)
PenaltyDb(total_amount) == (total_amount * 3) \div 2

\* Mutant: the membership test left out.
AlreadyClaimedNever(packet, u) == FALSE

\* `if user_id in claimed`
AlreadyClaimed(packet, u) == u \in Range(packet.claimed_users)

\* `packet.mine_number >= 0 and claimer.balance < 5000000`
RiskGateBlocked(packet, balance) == packet.mine_number >= 0 /\ balance < RiskBalance

MineHit(packet, grab_db) ==
    packet.mine_number >= 0 /\ LastDigit(grab_db) = packet.mine_number

\* The callback arrives: packet_id and user_id are taken from it.  `waited`
\* records whether another claim held the packet row at that time.
GrabCall(p, pk, u) ==
    /\ CanStart(p)
    /\ pk \in DOMAIN red_packets
    /\ procs' = [procs EXCEPT ![p] =
                    [op |-> "grab_packet", pc |-> "grab_select", packet_id |-> pk,
                     user_id |-> u, grab_db |-> 0, hit |-> FALSE,
                     waited |-> plock[pk] # NoLock]]
    /\ started' = started + 1
    /\ UNCHANGED <<users, transactions, deposits, withdrawals, red_packets, ulock,
                   plock, clock, ticks, credits>>

\* Lines 383-412: the packet row is locked, the checks run, the claimer is
\* read without a lock, and the amount is drawn.  A refusal returns inside
\* session.begin() and so commits: the row added for an unknown claimer is
\* inserted on the risk-gate refusal.
GrabSelect(p) ==
    LET pk == procs[p].packet_id
        u == procs[p].user_id
        packet == red_packets[pk]
        found == users[u].exists
        bal == IF found THEN users[u].balance ELSE 0
        base == [op |-> "grab_packet", packet_id |-> pk, user_id |-> u,
                 packet |-> packet, found |-> found, bal |-> bal,
                 grab_db |-> 0, hit |-> FALSE, sender_bal |-> 0,
                 waited |-> procs[p].waited]
        amounts == GrabAmounts(packet.remaining_amount, packet.remaining_count)
    IN  /\ procs[p].pc = "grab_select"
        /\ PacketRowFree(pk, p)
        /\ IF packet.status # "active" \/ packet.remaining_count <= 0
           THEN /\ procs' = [procs EXCEPT ![p] = GrabDone(base, "not_active")]
                /\ UNCHANGED <<users, plock>>
           ELSE IF AlreadyClaimed(packet, u)
           THEN /\ procs' = [procs EXCEPT ![p] = GrabDone(base, "already_claimed")]
                /\ UNCHANGED <<users, plock>>
           ELSE IF RiskGateBlocked(packet, bal)
           THEN /\ procs' = [procs EXCEPT ![p] = GrabDone(base, "risk_gate")]
                /\ users' = IF found THEN users ELSE [users EXCEPT ![u] = User(TRUE, 0)]
                /\ UNCHANGED plock
           ELSE IF amounts = {}
           THEN \* random.randint(1, 0) raises ValueError: the transaction rolls back
                /\ procs' = [procs EXCEPT ![p] = GrabDone(base, "draw_error")]
                /\ UNCHANGED <<users, plock>>
           ELSE \E g \in amounts :
                /\ procs' = [procs EXCEPT ![p] =
                                [base EXCEPT !.grab_db = g, !.hit = MineHit(packet, g)]
                                @@ [pc |-> IF MineHit(packet, g)
                                           THEN "grab_flush" ELSE "grab_commit"]]
                /\ plock' = [plock EXCEPT ![pk] = p]
                /\ UNCHANGED users
        /\ UNCHANGED <<transactions, deposits, withdrawals, red_packets, ulock,
                       clock, ticks, started, credits>>

\* Lines 428-429, on a mine hit: the SELECT of the sender first flushes the
\* session (the claimer's UPDATE takes its row lock), then reads the sender
\* without a lock.  The sender read for a self-grab is the claimer object.
GrabFlush(p) ==
    LET f == procs[p]
        u == f.user_id
        sender == f.packet.sender_id
    IN  /\ f.pc = "grab_flush"
        /\ UserRowFree(u, p)
        /\ IF users[sender].exists
           THEN /\ ulock' = [ulock EXCEPT ![u] = p]
                /\ plock' = plock
                /\ procs' = [procs EXCEPT ![p] = [f EXCEPT !.pc = "grab_commit",
                                 !.sender_bal = users[sender].balance]]
           ELSE \* sender is None: AttributeError, the transaction rolls back
                /\ ulock' = ReleaseUser(ulock, p)
                /\ plock' = ReleasePacket(plock, p)
                /\ procs' = [procs EXCEPT ![p] = GrabDone(f, "error")]
        /\ UNCHANGED <<users, transactions, deposits, withdrawals, red_packets,
                       clock, ticks, started, credits>>

\* The packet row as lines 408-412 leave it.
GrabbedPacket(packet, u, grab_db) ==
    [packet EXCEPT !.remaining_amount = @ - grab_db,
                   !.remaining_count = @ - 1,
                   !.claimed_users = Append(@, u),
                   !.status = IF packet.remaining_count - 1 = 0 THEN "finished" ELSE @]

\* The claimer's balance as lines 414 and 425 (and 430 on a self-grab) leave it.
ClaimerBalance(f) ==
    LET penalty_db == PenaltyDb(f.packet.total_amount)
    IN  IF ~f.hit THEN f.bal + f.grab_db
        ELSE IF f.packet.sender_id = f.user_id
        THEN f.bal + f.grab_db - penalty_db + penalty_db
        ELSE f.bal + f.grab_db - penalty_db

\* The ledger entries of one grab.
GrabLedger(bag, f) ==
    LET u == f.user_id
        pk == f.packet_id
        penalty_db == PenaltyDb(f.packet.total_amount)
        grabbed == AddRow(bag, Transaction(u, f.grab_db, "grab", pk))
    IN  IF ~f.hit THEN grabbed
        ELSE AddRow(AddRow(grabbed, Transaction(u, -penalty_db, "boom_penalty", pk)),
                    Transaction(f.packet.sender_id, penalty_db, "boom_income", pk))

\* The end of session.begin(): the flush writes the values computed from what
\* was read, then the transaction commits and its locks are released.
GrabCommit(p) ==
    LET f == procs[p]
        u == f.user_id
        pk == f.packet_id
        sender == f.packet.sender_id
        penalty_db == PenaltyDb(f.packet.total_amount)
        new == GrabbedPacket(f.packet, u, f.grab_db)
        conflict == ~f.found /\ users[u].exists
        withClaimer == [users EXCEPT ![u] = User(TRUE, ClaimerBalance(f))]
    IN  /\ f.pc = "grab_commit"
        /\ f.found => UserRowFree(u, p)
        /\ (f.hit /\ sender # u) => UserRowFree(sender, p)
        /\ IF conflict
           THEN \* INSERT of a claimer row that exists by now: IntegrityError
                /\ UNCHANGED <<users, transactions, red_packets>>
                /\ procs' = [procs EXCEPT ![p] = GrabDone(f, "error")]
           ELSE /\ red_packets' = [red_packets EXCEPT ![pk] =
                        [@ EXCEPT !.remaining_amount = new.remaining_amount,
                                  !.remaining_count = new.remaining_count,
                                  !.claimed_users = new.claimed_users,
                                  !.status = IF new.status # f.packet.status
                                             THEN new.status ELSE @]]
                /\ users' = IF f.hit /\ sender # u
                            THEN [withClaimer EXCEPT ![sender] =
                                      User(TRUE, f.sender_bal + penalty_db)]
                            ELSE withClaimer
                /\ transactions' = GrabLedger(transactions, f)
                /\ procs' = [procs EXCEPT ![p] = GrabDone(f, "grabbed")]
        /\ ulock' = ReleaseUser(ulock, p)
        /\ plock' = ReleasePacket(plock, p)
        /\ UNCHANGED <<deposits, withdrawals, clock, ticks, started, credits>>

(***************************************************************************)
(* monitor.py auto_refund_redpackets, one of the three steps of the        *)
(* monitor's loop.                                                         *)
(***************************************************************************)
\* `RedPacket.status == 'active', RedPacket.created_at < limit`
ExpiredPackets ==
    {pk \in DOMAIN red_packets :
        /\ red_packets[pk].status = "active"
        /\ red_packets[pk].created_at < clock - PacketTtl}

\* Line 22-23: the expired packets are read, without a lock.
RefundSelect ==
    /\ procs[Monitor].pc = "idle"
    /\ ExpiredPackets # {}
    /\ procs' = [procs EXCEPT ![Monitor] =
                    [op |-> "auto_refund_redpackets", pc |-> "rf_read",
                     expired |-> [pk \in ExpiredPackets |-> red_packets[pk]],
                     senders |-> [u \in {} |-> 0]]]
    /\ UNCHANGED <<users, transactions, deposits, withdrawals, red_packets, ulock,
                   plock, clock, ticks, started, credits>>

\* The packets of the sweep that still hold an amount, those of one sender.
Refundable(expired) == {pk \in DOMAIN expired : expired[pk].remaining_amount > 0}

RefundableOf(expired, u) == {pk \in Refundable(expired) : expired[pk].sender_id = u}

\* Line 29: the senders are read, without a lock.
RefundRead ==
    LET f == procs[Monitor]
        who == {u \in Accounts : RefundableOf(f.expired, u) # {} /\ users[u].exists}
    IN  /\ f.pc = "rf_read"
        /\ procs' = [procs EXCEPT ![Monitor] = [f EXCEPT !.pc = "rf_commit",
                         !.senders = [u \in who |-> users[u].balance]]]
        /\ UNCHANGED <<users, transactions, deposits, withdrawals, red_packets,
                       ulock, plock, clock, ticks, started, credits>>

RECURSIVE SumRemaining(_, _)
SumRemaining(expired, pks) ==
    IF pks = {} THEN 0
    ELSE LET pk == CHOOSE x \in pks : TRUE
         IN  expired[pk].remaining_amount + SumRemaining(expired, pks \ {pk})

RECURSIVE RefundLedger(_, _, _)
RefundLedger(bag, expired, pks) ==
    IF pks = {} THEN bag
    ELSE LET pk == CHOOSE x \in pks : TRUE
         IN  RefundLedger(AddRow(bag, Transaction(expired[pk].sender_id,
                                     expired[pk].remaining_amount, "refund", pk)),
                          expired, pks \ {pk})

\* The end of session.begin(): u.balance as computed from what was read, one
\* refund entry per packet, and status 'refunded' on every packet of the sweep.
RefundCommit ==
    LET f == procs[Monitor]
        who == DOMAIN f.senders
        paid == {pk \in Refundable(f.expired) : f.expired[pk].sender_id \in who}
    IN  /\ f.pc = "rf_commit"
        /\ \A pk \in DOMAIN f.expired : PacketRowFree(pk, Monitor)
        /\ \A u \in who : UserRowFree(u, Monitor)
        /\ users' = [u \in Accounts |->
                        IF u \in who
                        THEN User(TRUE, f.senders[u] +
                                        SumRemaining(f.expired, RefundableOf(f.expired, u)))
                        ELSE users[u]]
        /\ transactions' = RefundLedger(transactions, f.expired, paid)
        /\ red_packets' = [pk \in DOMAIN red_packets |->
                              IF pk \in DOMAIN f.expired
                              THEN [red_packets[pk] EXCEPT !.status = "refunded"]
                              ELSE red_packets[pk]]
        /\ procs' = [procs EXCEPT ![Monitor] = Idle]
        /\ UNCHANGED <<deposits, withdrawals, ulock, plock, clock, ticks, started,
                       credits>>

(***************************************************************************)
(* The red-packet engine: accounts that signed up, some of them with a     *)
(* 5 USDT deposit credited, packets being sent, grabbed and refunded, and  *)
(* balances adjusted meanwhile.                                            *)
(***************************************************************************)
DepositDb == 5000000                   \* a deposit of 5 USDT, as credited

FundedLedger(us) ==
    LET funded == {u \in Accounts : us[u].exists}
    IN  SetToBag({Transaction(u, BonusDb, "system_bonus", "bonus") : u \in funded}
                 \cup {Transaction(u, DepositDb, "deposit", "tx") : u \in funded})

\* Every account either has no row yet or holds its bonus and one deposit;
\* the first one does.
InitPool ==
    /\ users \in [Accounts -> {User(FALSE, 0), User(TRUE, BonusDb + DepositDb)}]
    /\ users[1].exists
    /\ transactions = FundedLedger(users)
    /\ deposits = <<>>
    /\ withdrawals = <<>>
    /\ red_packets = <<>>
    /\ ulock = [u \in Accounts |-> NoLock]
    /\ plock = <<>>
    /\ procs = [p \in AllProcs |-> Idle]
    /\ clock = 0
    /\ ticks = 0
    /\ started = 0
    /\ credits = EmptyBag

PacketAmounts == {100000, 5000000}
\* process_packet_count accepts every count >= 2.
PacketCounts == {2, 200000}
MineNumbers == {-1, 3}
AdjustAmounts == {1000000}

PoolNext ==
    \/ \E u \in Accounts : CmdStart(u)
    \/ Tick(PacketTtl + 1)
    \/ \E p \in Procs, u \in Accounts, a \in PacketAmounts, c \in PacketCounts,
          m \in MineNumbers : ProcessPacketMine(p, u, a, c, m)
    \/ \E p \in Procs : PacketInsert(p)
    \/ \E p \in Procs, pk \in DOMAIN red_packets, u \in Accounts : GrabCall(p, pk, u)
    \/ \E p \in Procs : GrabSelect(p)
    \/ \E p \in Procs : GrabFlush(p)
    \/ \E p \in Procs : GrabCommit(p)
    \/ \E p \in Procs, u \in Accounts, a \in AdjustAmounts : AddBalanceCall(p, u, a)
    \/ \E p \in Procs : AddBalanceSelect(p)
    \/ \E p \in Procs : AddBalanceCommit(p)
    \/ \E p \in Procs : Finish(p)
    \/ RefundSelect
    \/ RefundRead
    \/ RefundCommit

SpecPool == InitPool /\ [][PoolNext]_vars

(***************************************************************************)
(* Deposit orders.  bot.py process_deposit_amount -> database.py           *)
(* create_deposit_order: the order is inserted pending with the nominal    *)
(* amount and the amount to pay, nominal + random.randint(100, 5000).      *)
(***************************************************************************)
NoTx == "none"                          \* tx_hash IS NULL

Deposit(user_id, amount, random_amount, created_at) ==
    [user_id |-> user_id, amount |-> amount, random_amount |-> random_amount,
     status |-> "pending", tx_hash |-> NoTx, created_at |-> created_at]

\* The dialogue reaches this handler only for an account that has used /start.
CreateDepositOrder(u, usdt_val, offset) ==
    /\ users[u].exists
    /\ usdt_val > 0 /\ offset >= 100 /\ offset <= 5000
    /\ Len(deposits) < MaxOrders
    /\ deposits' = Append(deposits,
                          Deposit(u, usdt_val * 1000000, usdt_val * 1000000 + offset, clock))
    /\ UNCHANGED <<users, transactions, withdrawals, red_packets, ulock, plock,
                   procs, clock, ticks, started, credits>>

\* The transfers the TronGrid feed may report, at any poll and any number of
\* times: two to the collection address, one to another address.
Feed ==
    {[transaction_id |-> "a", to |-> WatchAddress, value |-> 5000100],
     [transaction_id |-> "b", to |-> WatchAddress, value |-> 5000137],
     [transaction_id |-> "c", to |-> "other", value |-> 5000100]}

TxSeenNever(tx_hash) == FALSE

\* `select(Deposit).where(Deposit.tx_hash == tx_hash)` finds a row.
TxSeen(tx_hash) == \E o \in DOMAIN deposits : deposits[o].tx_hash = tx_hash

MatchingOrdersAtMost(value) ==
    {o \in DOMAIN deposits :
        deposits[o].status = "pending" /\ deposits[o].random_amount <= value}

\* The pending orders whose amount to pay is `value`.
MatchingOrders(value) ==
    {o \in DOMAIN deposits :
        deposits[o].status = "pending" /\ deposits[o].random_amount = value}

\* The UPDATE of monitor.py process_deposit is flushed before its commit (the
\* SELECT of the user flushes the session): from then on the order row is
\* locked and the tx_hash is taken in the unique index.
DepositRowHeld(o) ==
    procs[Monitor].pc = "md_commit" /\ procs[Monitor].order_id = o

TxHashHeld(tx_hash, o) ==
    /\ procs[Monitor].pc = "md_commit"
    /\ procs[Monitor].tx_hash = tx_hash
    /\ procs[Monitor].order_id # o

\* Another row carries the tx_hash: the unique constraint of Deposit.tx_hash.
TxHashConflict(tx_hash, o) ==
    \E other \in DOMAIN deposits : other # o /\ deposits[other].tx_hash = tx_hash

(***************************************************************************)
(* bot.py process_chain_txs, one transfer of the poll: lines 102-152.      *)
(***************************************************************************)
\* Lines 102-138: the filter, the duplicate check and the match; on a match
\* the owner is credited the nominal amount through add_balance.  first()
\* without ORDER BY returns any of the matching rows.
WatchTx(tx) ==
    /\ procs[Watcher].pc = "idle"
    /\ tx.to = WatchAddress
    /\ ~TxSeen(tx.transaction_id)
    /\ \E o \in MatchingOrders(tx.value) :
          procs' = [procs EXCEPT ![Watcher] =
                       [op |-> "process_chain_txs", tx_hash |-> tx.transaction_id,
                        order_id |-> o]
                       @@ AbFrame(deposits[o].user_id, deposits[o].amount, "deposit",
                                  tx.transaction_id, "wc_notify")]
    /\ UNCHANGED <<users, transactions, deposits, withdrawals, red_packets, ulock,
                   plock, clock, ticks, started, credits>>

\* Lines 110-112: a tx_hash some order carries is a transfer already handled;
\* the loop goes on to the next transfer.
Dropped(tx_hash) == [pc |-> "idle", dropped |-> tx_hash]

WatchDuplicate(tx) ==
    /\ procs[Watcher].pc = "idle"
    /\ tx.to = WatchAddress
    /\ TxSeen(tx.transaction_id)
    /\ procs' = [procs EXCEPT ![Watcher] = Dropped(tx.transaction_id)]
    /\ UNCHANGED <<users, transactions, deposits, withdrawals, red_packets, ulock,
                   plock, clock, ticks, started, credits>>

\* A transfer the watcher passes over: another address (line 107), or no
\* pending order of that amount (line 130).
WatchSkip(tx) ==
    /\ procs[Watcher].pc = "idle"
    /\ \/ tx.to # WatchAddress
       \/ ~TxSeen(tx.transaction_id) /\ MatchingOrders(tx.value) = {}
    /\ UNCHANGED vars

\* Lines 141-148: bot.send_message to the owner, inside try / except: pass, so
\* the message is sent or the failure is swallowed.  An exception of
\* add_balance has left process_chain_txs before.
Notifications == {"sent", "failed"}

WatchNotify ==
    LET f == procs[Watcher]
    IN  /\ f.pc = "wc_notify"
        /\ \E r \in Notifications :
              procs' = [procs EXCEPT ![Watcher] =
                           [f EXCEPT !.pc = "wc_commit"]
                           @@ [notified |-> IF f.success = "error" THEN "none" ELSE r]]
        /\ UNCHANGED <<users, transactions, deposits, withdrawals, red_packets, ulock,
                       plock, clock, ticks, started, credits>>

\* Line 151, session.commit(): the order row gets status "success" and the
\* tx_hash.  The notification of lines 141-148 comes before it.  An exception
\* (of add_balance, or of the unique constraint) leaves process_chain_txs and
\* the session is closed without a commit.
WatchCommit ==
    LET f == procs[Watcher]
        o == f.order_id
    IN  /\ f.pc = "wc_commit"
        /\ ~DepositRowHeld(o)
        /\ ~TxHashHeld(f.tx_hash, o)
        /\ deposits' = IF f.success = "error" \/ TxHashConflict(f.tx_hash, o)
                       THEN deposits
                       ELSE [deposits EXCEPT ![o] =
                                [@ EXCEPT !.status = "success", !.tx_hash = f.tx_hash]]
        /\ procs' = [procs EXCEPT ![Watcher] = Idle]
        /\ UNCHANGED <<users, transactions, withdrawals, red_packets, ulock, plock,
                       clock, ticks, started, credits>>

(***************************************************************************)
(* monitor.py check_transactions -> process_deposit(tx_id, amount).        *)
(***************************************************************************)
\* order_by(Deposit.id.desc()).first()
NewestOrder(orders) == CHOOSE o \in orders : \A other \in orders : other <= o

\* Lines 57-70: the filter, the duplicate check and the match.
MonitorDeposit(tx) ==
    /\ procs[Monitor].pc = "idle"
    /\ tx.to = WatchAddress
    /\ ~TxSeen(tx.transaction_id)
    /\ MatchingOrders(tx.value) # {}
    /\ procs' = [procs EXCEPT ![Monitor] =
                    [op |-> "process_deposit", pc |-> "md_read",
                     tx_hash |-> tx.transaction_id, amount |-> tx.value,
                     order_id |-> NewestOrder(MatchingOrders(tx.value)),
                     found |-> FALSE, bal |-> 0]]
    /\ UNCHANGED <<users, transactions, deposits, withdrawals, red_packets, ulock,
                   plock, clock, ticks, started, credits>>

\* Lines 66-67: `if dup.scalars().first(): return`.
MonitorDuplicate(tx) ==
    /\ procs[Monitor].pc = "idle"
    /\ tx.to = WatchAddress
    /\ TxSeen(tx.transaction_id)
    /\ procs' = [procs EXCEPT ![Monitor] = Dropped(tx.transaction_id)]
    /\ UNCHANGED <<users, transactions, deposits, withdrawals, red_packets, ulock,
                   plock, clock, ticks, started, credits>>

\* Another address (line 57), or no pending order of that amount (line 72).
MonitorSkip(tx) ==
    /\ procs[Monitor].pc = "idle"
    /\ \/ tx.to # WatchAddress
       \/ ~TxSeen(tx.transaction_id) /\ MatchingOrders(tx.value) = {}
    /\ UNCHANGED vars

\* Line 77: the session is flushed (the order's UPDATE; a tx_hash another row
\* carries raises and the transaction rolls back), then the user is read
\* without a lock.
MonitorRead ==
    LET f == procs[Monitor]
        u == deposits[f.order_id].user_id
    IN  /\ f.pc = "md_read"
        /\ procs' = [procs EXCEPT ![Monitor] =
                        IF TxHashConflict(f.tx_hash, f.order_id) THEN Idle
                        ELSE [f EXCEPT !.pc = "md_commit", !.found = users[u].exists,
                                       !.bal = users[u].balance]]
        /\ UNCHANGED <<users, transactions, deposits, withdrawals, red_packets,
                       ulock, plock, clock, ticks, started, credits>>

\* Lines 74-81 at the commit: the order is completed with the tx_hash and the
\* user, when there is one, gets the amount of the transfer.
MonitorCommit ==
    LET f == procs[Monitor]
        o == f.order_id
        u == deposits[o].user_id
    IN  /\ f.pc = "md_commit"
        /\ f.found => UserRowFree(u, Monitor)
        /\ deposits' = [deposits EXCEPT ![o] =
                           [@ EXCEPT !.status = "completed", !.tx_hash = f.tx_hash]]
        /\ IF f.found
           THEN /\ users' = [users EXCEPT ![u] = User(TRUE, f.bal + f.amount)]
                /\ transactions' = AddRow(transactions,
                                          Transaction(u, f.amount, "deposit_auto", o))
                /\ credits' = AddRow(credits,
                                     DepositCredit(f.tx_hash, o, f.amount, f.op))
           ELSE UNCHANGED <<users, transactions, credits>>
        /\ procs' = [procs EXCEPT ![Monitor] = Idle]
        /\ UNCHANGED <<withdrawals, red_packets, ulock, plock, clock, ticks, started>>

(***************************************************************************)
(* monitor.py auto_reject_expired_orders.                                  *)
(***************************************************************************)
ExpiredOrders ==
    {o \in DOMAIN deposits :
        deposits[o].status = "pending" /\ deposits[o].created_at < clock - DepositTtl}

RejectSelect ==
    /\ procs[Monitor].pc = "idle"
    /\ ExpiredOrders # {}
    /\ procs' = [procs EXCEPT ![Monitor] =
                    [op |-> "auto_reject_expired_orders", pc |-> "mr_commit",
                     orders |-> ExpiredOrders]]
    /\ UNCHANGED <<users, transactions, deposits, withdrawals, red_packets, ulock,
                   plock, clock, ticks, started, credits>>

RejectCommit ==
    LET f == procs[Monitor]
    IN  /\ f.pc = "mr_commit"
        /\ deposits' = [o \in DOMAIN deposits |->
                           IF o \in f.orders
                           THEN [deposits[o] EXCEPT !.status = "expired"]
                           ELSE deposits[o]]
        /\ procs' = [procs EXCEPT ![Monitor] = Idle]
        /\ UNCHANGED <<users, transactions, withdrawals, red_packets, ulock, plock,
                       clock, ticks, started, credits>>

(***************************************************************************)
(* admin.py handle_deposit(order_id, action).                              *)
(***************************************************************************)
HandleDepositDone(f, answer) ==
    [pc |-> "done", op |-> "handle_deposit", order_id |-> f.order_id,
     action |-> f.action, answer |-> answer]

\* Lines 103-119 up to the commit: the order is read without a lock; approve
\* credits the amount to pay through add_balance.
HandleDeposit(p, o, action) ==
    LET order == deposits[o]
        f == [op |-> "handle_deposit", order_id |-> o, action |-> action,
              tx_hash |-> NoTx]
    IN  /\ CanStart(p)
        /\ o \in DOMAIN deposits
        /\ action \in {"approve", "reject"}
        /\ procs' = [procs EXCEPT ![p] =
                        IF order.status # "pending" THEN HandleDepositDone(f, "400")
                        ELSE IF action = "approve"
                        THEN f @@ AbFrame(order.user_id, order.random_amount,
                                          "deposit_manual", o, "hd_commit")
                        ELSE f @@ [pc |-> "hd_commit", success |-> "none"]]
        /\ started' = started + 1
        /\ UNCHANGED <<users, transactions, deposits, withdrawals, red_packets,
                       ulock, plock, clock, ticks, credits>>

\* The end of session.begin(): the status computed from what was read.
HandleDepositCommit(p) ==
    LET f == procs[p]
        o == f.order_id
    IN  /\ f.pc = "hd_commit"
        /\ f.op = "handle_deposit"
        /\ ~DepositRowHeld(o)
        /\ IF f.action = "approve" /\ f.success # "ok"
           THEN /\ deposits' = deposits
                /\ procs' = [procs EXCEPT ![p] = HandleDepositDone(f, "500")]
           ELSE /\ deposits' = [deposits EXCEPT ![o] =
                        [@ EXCEPT !.status = IF f.action = "approve"
                                             THEN "completed" ELSE "rejected"]]
                /\ procs' = [procs EXCEPT ![p] = HandleDepositDone(f, "200")]
        /\ UNCHANGED <<users, transactions, withdrawals, red_packets, ulock, plock,
                       clock, ticks, started, credits>>

(***************************************************************************)
(* The deposit reconciler: accounts that signed up, orders being created,  *)
(* the two watchers matching transfers, the admin and the expiry sweep.    *)
(***************************************************************************)
InitDeposit ==
    /\ users = [u \in Accounts |-> User(TRUE, BonusDb)]
    /\ transactions = SetToBag({Transaction(u, BonusDb, "system_bonus", "bonus") :
                                   u \in Accounts})
    /\ deposits = <<>>
    /\ withdrawals = <<>>
    /\ red_packets = <<>>
    /\ ulock = [u \in Accounts |-> NoLock]
    /\ plock = <<>>
    /\ procs = [p \in AllProcs |-> Idle]
    /\ clock = 0
    /\ ticks = 0
    /\ started = 0
    /\ credits = EmptyBag

Admin == 1                              \* the admin panel serves one request at a time
DepositUsdt == {5}
DepositOffsets == {100, 137}

DepositNext ==
    \/ deposits # <<>> /\ Tick(DepositTtl + 1)
    \/ \E u \in Accounts, v \in DepositUsdt, r \in DepositOffsets :
          CreateDepositOrder(u, v, r)
    \/ \E tx \in Feed : WatchTx(tx)
    \/ \E tx \in Feed : WatchDuplicate(tx)
    \/ \E tx \in Feed : WatchSkip(tx)
    \/ WatchNotify
    \/ WatchCommit
    \/ \E tx \in Feed : MonitorDeposit(tx)
    \/ \E tx \in Feed : MonitorDuplicate(tx)
    \/ \E tx \in Feed : MonitorSkip(tx)
    \/ MonitorRead
    \/ MonitorCommit
    \/ RejectSelect
    \/ RejectCommit
    \/ \E o \in DOMAIN deposits, a \in {"approve", "reject"} :
          started < MaxReviews /\ HandleDeposit(Admin, o, a)
    \/ HandleDepositCommit(Admin)
    \/ \E p \in AllProcs : AddBalanceSelect(p)
    \/ \E p \in AllProcs : AddBalanceCommit(p)

SpecDeposit == InitDeposit /\ [][DepositNext]_vars

(***************************************************************************)
(* admin.py handle_withdrawal(request_id, action).                         *)
(***************************************************************************)
HandleWithdrawalDone(f, answer) ==
    [pc |-> "done", op |-> "handle_withdrawal", request_id |-> f.request_id,
     action |-> f.action, answer |-> answer]

\* Lines 125-131: the request is read without a lock; approve debits the
\* owner through add_balance, reject goes straight to the status.
HandleWithdrawal(p, w, action) ==
    LET req == withdrawals[w]
        f == [op |-> "handle_withdrawal", request_id |-> w, action |-> action]
    IN  /\ CanStart(p)
        /\ w \in DOMAIN withdrawals
        /\ action \in {"approve", "reject"}
        /\ procs' = [procs EXCEPT ![p] =
                        IF req.status # "pending" THEN HandleWithdrawalDone(f, "400")
                        ELSE IF action = "approve"
                        THEN f @@ AbFrame(req.user_id, -req.amount,
                                          "withdraw_approved", w, "hw_commit")
                        ELSE f @@ [pc |-> "hw_commit", success |-> "none"]]
        /\ started' = started + 1
        /\ UNCHANGED <<users, transactions, deposits, withdrawals, red_packets,
                       ulock, plock, clock, ticks, credits>>

\* Lines 132-139 and the end of session.begin(): a failed debit raises and
\* nothing is written; otherwise the status computed from what was read is
\* written to the row.
HandleWithdrawalCommit(p) ==
    LET f == procs[p]
        w == f.request_id
    IN  /\ f.pc = "hw_commit"
        /\ f.op = "handle_withdrawal"
        /\ IF f.action = "approve" /\ f.success # "ok"
           THEN /\ withdrawals' = withdrawals
                /\ procs' = [procs EXCEPT ![p] = HandleWithdrawalDone(f, "400")]
           ELSE /\ withdrawals' = [withdrawals EXCEPT ![w] =
                        [@ EXCEPT !.status = IF f.action = "approve"
                                             THEN "approved" ELSE "rejected"]]
                /\ procs' = [procs EXCEPT ![p] = HandleWithdrawalDone(f, "200")]
        /\ UNCHANGED <<users, transactions, deposits, red_packets, ulock, plock,
                       clock, ticks, started, credits>>

(***************************************************************************)
(* Withdrawals: requests being created and decided by the admin.           *)
(***************************************************************************)
WithdrawAmounts == {200000, 600000}

WithdrawNext ==
    \/ \E u \in Accounts : CmdStart(u)
    \/ \E p \in Procs, u \in Accounts, a \in WithdrawAmounts :
          CreateWithdrawalCall(p, u, a)
    \/ \E p \in Procs : CreateWithdrawalSelect(p)
    \/ \E p \in Procs : CreateWithdrawalCommit(p)
    \/ \E p \in Procs, w \in DOMAIN withdrawals, a \in {"approve", "reject"} :
          HandleWithdrawal(p, w, a)
    \/ \E p \in Procs : AddBalanceSelect(p)
    \/ \E p \in Procs : AddBalanceCommit(p)
    \/ \E p \in Procs : HandleWithdrawalCommit(p)
    \/ \E p \in Procs : Finish(p)

SpecWithdraw == Init /\ [][WithdrawNext]_vars

(***************************************************************************)
(* A crash of the bot or of the monitor in the middle of a reconciliation: *)
(* the process stops where it is, its open transaction is rolled back and  *)
(* its row locks are released; what it committed stays.  After the restart *)
(* the task polls again.                                                   *)
(***************************************************************************)
MaxCredits == 2    \* deposit credits after which no crash is considered

Crashed(op, order_id) == [pc |-> "idle", crashed |-> op, order_id |-> order_id]

Crash(p) ==
    /\ procs[p].pc # "idle"
    /\ procs[p].op \in {"process_chain_txs", "process_deposit"}
    /\ BagCardinality(credits) < MaxCredits
    /\ procs' = [procs EXCEPT ![p] = Crashed(procs[p].op, procs[p].order_id)]
    /\ ulock' = ReleaseUser(ulock, p)
    /\ UNCHANGED <<users, transactions, deposits, withdrawals, red_packets, plock,
                   clock, ticks, started, credits>>

CrashNext ==
    \/ \E u \in Accounts, v \in DepositUsdt, r \in DepositOffsets :
          CreateDepositOrder(u, v, r)
    \/ \E tx \in Feed : WatchTx(tx)
    \/ \E tx \in Feed : WatchDuplicate(tx)
    \/ \E tx \in Feed : WatchSkip(tx)
    \/ WatchNotify
    \/ WatchCommit
    \/ \E tx \in Feed : MonitorDeposit(tx)
    \/ \E tx \in Feed : MonitorDuplicate(tx)
    \/ \E tx \in Feed : MonitorSkip(tx)
    \/ MonitorRead
    \/ MonitorCommit
    \/ AddBalanceSelect(Watcher)
    \/ AddBalanceCommit(Watcher)
    \/ Crash(Watcher)
    \/ Crash(Monitor)

SpecCrash == InitDeposit /\ [][CrashNext]_vars

(***************************************************************************)
(* A crash of the bot while a packet is being sent: the handler stops      *)
(* where it is, an open transaction is rolled back, what was committed     *)
(* stays.                                                                  *)
(***************************************************************************)
CrashedSend(u) == [pc |-> "idle", crashed |-> "process_packet_mine", user_id |-> u]

SendCrash(p) ==
    /\ p \in Sending
    /\ procs' = [procs EXCEPT ![p] = CrashedSend(procs[p].user_id)]
    /\ ulock' = ReleaseUser(ulock, p)
    /\ UNCHANGED <<users, transactions, deposits, withdrawals, red_packets, plock,
                   clock, ticks, started, credits>>

SendNext ==
    \/ \E u \in Accounts : CmdStart(u)
    \/ \E p \in Procs, u \in Accounts, a \in PacketAmounts, c \in PacketCounts,
          m \in MineNumbers : ProcessPacketMine(p, u, a, c, m)
    \/ \E p \in Procs : AddBalanceSelect(p)
    \/ \E p \in Procs : AddBalanceCommit(p)
    \/ \E p \in Procs : PacketInsert(p)
    \/ \E p \in Procs : SendCrash(p)
    \/ \E p \in Procs : Finish(p)

SpecSend == InitPool /\ [][SendNext]_vars

(***************************************************************************)
(* Packets grabbed while the accounts withdraw.                            *)
(***************************************************************************)
GateNext ==
    \/ \E p \in Procs, u \in Accounts, a \in PacketAmounts, c \in PacketCounts,
          m \in MineNumbers : ProcessPacketMine(p, u, a, c, m)
    \/ \E p \in Procs : PacketInsert(p)
    \/ \E p \in Procs, pk \in DOMAIN red_packets, u \in Accounts : GrabCall(p, pk, u)
    \/ \E p \in Procs : GrabSelect(p)
    \/ \E p \in Procs : GrabFlush(p)
    \/ \E p \in Procs : GrabCommit(p)
    \/ \E p \in Procs, u \in Accounts, a \in WithdrawAmounts :
          CreateWithdrawalCall(p, u, a)
    \/ \E p \in Procs : CreateWithdrawalSelect(p)
    \/ \E p \in Procs : CreateWithdrawalCommit(p)
    \/ \E p \in Procs : AddBalanceSelect(p)
    \/ \E p \in Procs : AddBalanceCommit(p)
    \/ \E p \in Procs : Finish(p)

SpecGate == InitPool /\ [][GateNext]_vars

(***************************************************************************)
(* create_withdrawal_request called with any integer amount: the function  *)
(* itself looks at `user.balance < amount` only.                           *)
(***************************************************************************)
RequestAmounts == {-200000, 0, 200000, 600000}

RequestNext ==
    \/ \E u \in Accounts : CmdStart(u)
    \/ \E p \in Procs, u \in Accounts, a \in RequestAmounts : CreateWithdrawalCall(p, u, a)
    \/ \E p \in Procs : CreateWithdrawalSelect(p)
    \/ \E p \in Procs : CreateWithdrawalCommit(p)
    \/ \E p \in Procs : Finish(p)

SpecRequest == Init /\ [][RequestNext]_vars

(***************************************************************************)
(* Two concurrent debits of one account: the sign-up, and one debit per    *)
(* handler, through add_balance or create_withdrawal_request.              *)
(***************************************************************************)
DebitAmounts == {200000, 300000, 600000}

DebitNext ==
    \/ \E u \in Accounts : CmdStart(u)
    \/ \E p \in Procs, u \in Accounts, a \in DebitAmounts : AddBalanceCall(p, u, -a)
    \/ \E p \in Procs, u \in Accounts, a \in DebitAmounts : CreateWithdrawalCall(p, u, a)
    \/ \E p \in Procs : AddBalanceSelect(p)
    \/ \E p \in Procs : AddBalanceCommit(p)
    \/ \E p \in Procs : CreateWithdrawalSelect(p)
    \/ \E p \in Procs : CreateWithdrawalCommit(p)

SpecDebit == Init /\ [][DebitNext]_vars

\* The account and the amount a debit frame takes from it.
FrameUser(f) == IF f.op = "add_balance" THEN f.tg_id ELSE f.user_id

FrameDebit(f) == IF f.op = "add_balance" THEN -f.amount ELSE f.amount

IsDebit(f) ==
    /\ f.pc # "idle"
    /\ f.op \in {"add_balance", "create_withdrawal_request"}
    /\ FrameDebit(f) > 0

InCheckAndWrite(f) ==
    \/ f.pc = "ab_write" /\ f.found
    \/ f.pc = "cw_write"

\* C3: of two concurrent debits of one account (add_balance with a negative
\* amount, create_withdrawal_request) whose combined amount exceeds the
\* balance, at most one succeeds; and while a debit is between its balance
\* check and its write, the balance it checked is the account's balance (the
\* row lock keeps every other check-and-write out).
C3_DebitsExclusive ==
    /\ \A p, q \in Procs :
          (/\ p # q
           /\ IsDebit(procs[p]) /\ IsDebit(procs[q])
           /\ FrameUser(procs[p]) = FrameUser(procs[q])
           /\ procs[p].pc = "done" /\ procs[p].success = "ok"
           /\ procs[q].pc = "done" /\ procs[q].success = "ok")
          => FrameDebit(procs[p]) + FrameDebit(procs[q]) <= BonusDb
    /\ \A p \in Procs :
          (IsDebit(procs[p]) /\ InCheckAndWrite(procs[p]))
          => /\ ulock[FrameUser(procs[p])] = p
             /\ users[FrameUser(procs[p])].balance = procs[p].bal

\* Two debits of one account through the two functions, each covered by the
\* balance alone and not both together: one went through, one was refused.
C3_Witness ==
    \E p, q \in Procs :
        /\ procs[p].pc = "done" /\ procs[q].pc = "done"
        /\ procs[p].op = "add_balance" /\ procs[q].op = "create_withdrawal_request"
        /\ procs[p].tg_id = procs[q].user_id
        /\ FrameDebit(procs[p]) = 300000 /\ FrameDebit(procs[q]) = 300000
        /\ procs[p].found
        /\ {procs[p].success, procs[q].success} = {"ok", "insufficient"}
        /\ users[procs[p].tg_id].balance = 200000

\* C10: a withdrawal request for more than the owner's current balance is
\* refused for insufficient funds and creates no request row, writes no ledger
\* entry and leaves every balance unchanged.
C10_RefusedWithdrawal ==
    [][\A p \in Procs :
          (/\ procs[p].pc = "cw_write"
           /\ procs'[p].pc = "done"
           /\ procs[p].amount > users[procs[p].user_id].balance)
          => /\ procs'[p].success = "insufficient"
             /\ UNCHANGED <<users, transactions, withdrawals>>]_vars

\* A request for more than the bonus was refused: the account still holds the
\* bonus, with its one ledger entry, and no request row exists.
C10_Witness ==
    \E p \in Procs :
        /\ procs[p].pc = "done"
        /\ procs[p].op = "create_withdrawal_request"
        /\ procs[p].success = "insufficient"
        /\ procs[p].amount > users[procs[p].user_id].balance
        /\ users[procs[p].user_id] = User(TRUE, BonusDb)
        /\ withdrawals = <<>>
        /\ LedgerCount(procs[p].user_id) = 1

\* C1: in every reachable state each account's balance equals the sum of the
\* amounts of the ledger entries recorded for that account (an account without
\* a row has no entries).
C1_Conservation ==
    \A u \in Accounts :
        IF users[u].exists THEN users[u].balance = LedgerSum(u) ELSE LedgerSum(u) = 0

\* C2: no account balance is below 0 in any reachable state.
C2_NonNegative == \A u \in Accounts : users[u].balance >= 0

\* C4: no account id appears more than once in a packet's claimed set.
C4_ClaimExclusive ==
    \A pk \in DOMAIN red_packets :
        LET claimed == red_packets[pk].claimed_users
        IN  \A i, j \in DOMAIN claimed : claimed[i] = claimed[j] => i = j

\* One account sent two claims for one packet: the first was paid and is in
\* the claimed set; the second, which arrived while the first held the packet
\* row, was told the account had claimed already.
C4_Witness ==
    \E p, q \in Procs :
        /\ p < q
        /\ procs[p].pc = "done" /\ procs[q].pc = "done"
        /\ procs[p].op = "grab_packet" /\ procs[q].op = "grab_packet"
        /\ procs[p].packet_id = procs[q].packet_id
        /\ procs[p].user_id = procs[q].user_id
        /\ procs[p].answer = "grabbed" /\ procs[q].answer = "already_claimed"
        /\ procs[q].waited
        /\ procs[p].user_id \in Range(red_packets[procs[p].packet_id].claimed_users)

\* What the ledger says left one packet: the claims paid and the refund.
PoolRows(pk, type) ==
    {r \in BagToSet(transactions) : r.type = type /\ r.note = pk}

PoolClaimed(pk) == SumRows(PoolRows(pk, "grab"), transactions)

PoolRefunded(pk) == SumRows(PoolRows(pk, "refund"), transactions)

\* C5: for every packet that has left the active state, the amounts credited
\* to claimants plus the amount refunded to the sender equal the packet's
\* distributable total.
C5_PoolValueConserved ==
    \A pk \in DOMAIN red_packets :
        red_packets[pk].status # "active"
        => PoolClaimed(pk) + PoolRefunded(pk) = red_packets[pk].total_amount

(***************************************************************************)
(* Deposit reconciliation.                                                 *)
(***************************************************************************)
\* Some order row carries the transfer.
Reconciled(tx_hash) ==
    \E o \in DOMAIN deposits :
        deposits[o].tx_hash = tx_hash /\ deposits[o].status \in {"completed", "success"}

\* The credits made for one transfer.
CreditsFor(tx_hash) ==
    CountRows({c \in BagToSet(credits) : c.tx_hash = tx_hash}, credits)

\* The frame shows that the process has taken up the transfer.
TookUp(frame, tx_hash) ==
    \/ frame = Dropped(tx_hash)
    \/ /\ frame.pc # "idle"
       /\ frame.op \in {"process_chain_txs", "process_deposit"}
       /\ frame.tx_hash = tx_hash

\* C6: a transfer delivered again, to the bot's watcher or to the monitor,
\* after an order was completed with it, is dropped: the step makes no credit
\* and changes no order, balance or ledger entry.
C6_ReplayDropped ==
    [][\A tx \in Feed, p \in {Watcher, Monitor} :
          ( /\ Reconciled(tx.transaction_id)
            /\ procs[p].pc = "idle"
            /\ procs'[p] # procs[p]
            /\ TookUp(procs'[p], tx.transaction_id) )
          => /\ procs'[p] = Dropped(tx.transaction_id)
             /\ UNCHANGED <<users, transactions, deposits, credits>>]_vars

\* A transfer that completed an order and was credited once has been delivered
\* again to the watcher and to the monitor, and both dropped it.
C6_Witness ==
    \E tx \in Feed :
        /\ Reconciled(tx.transaction_id)
        /\ CreditsFor(tx.transaction_id) = 1
        /\ procs[Watcher] = Dropped(tx.transaction_id)
        /\ procs[Monitor] = Dropped(tx.transaction_id)

\* C7: one transfer leads to at most one account credit in total.
C7_SingleCredit ==
    \A tx \in Feed : CreditsFor(tx.transaction_id) <= 1

\* The transfer `tx_hash` was matched to order `o`: the row carries it, or a
\* credit was made for the pair.
MatchedBy(o, tx_hash) ==
    \/ deposits[o].tx_hash = tx_hash
    \/ \E c \in BagToSet(credits) : c.order_id = o /\ c.tx_hash = tx_hash

\* C8: an order is matched by a transfer only if the transfer went to the
\* collection address and its amount equals the order's amount to pay; two
\* orders with distinct amounts to pay are never both matched by one transfer.
C8_ExactMatch ==
    /\ \A o \in DOMAIN deposits, tx \in Feed :
          MatchedBy(o, tx.transaction_id)
          => tx.to = WatchAddress /\ tx.value = deposits[o].random_amount
    /\ \A o1, o2 \in DOMAIN deposits, tx \in Feed :
          ( /\ deposits[o1].random_amount # deposits[o2].random_amount
            /\ MatchedBy(o1, tx.transaction_id) )
          => ~MatchedBy(o2, tx.transaction_id)

\* Two orders with distinct amounts to pay; the older is still pending and the
\* newer was completed and credited by the transfer of its amount.
C8_Witness ==
    /\ Len(deposits) = 2
    /\ deposits[1].random_amount # deposits[2].random_amount
    /\ deposits[1].status = "pending" /\ deposits[1].tx_hash = NoTx
    /\ deposits[2].tx_hash # NoTx
    /\ CreditsFor(deposits[2].tx_hash) = 1
    /\ \A c \in BagToSet(credits) : c.order_id = 2

\* C9: every credit made for a deposit order is the order's nominal amount.
C9_NominalCredit ==
    \A c \in BagToSet(credits) : c.amount = deposits[c.order_id].amount

(***************************************************************************)
(* Withdrawal settlement.                                                  *)
(***************************************************************************)
\* The ledger entries that debit an account for its withdrawal requests.
WithdrawalRows(u) ==
    {r \in LedgerRows(u) : r.type \in {"withdraw_freeze", "withdraw_approved"}}

RECURSIVE RequestedBy(_, _)
RequestedBy(u, n) ==
    IF n = 0 THEN 0
    ELSE RequestedBy(u, n - 1)
         + (IF withdrawals[n].user_id = u THEN withdrawals[n].amount ELSE 0)

\* C11: over the lifetime of its withdrawal requests an account is debited
\* each requested amount exactly once: what the ledger debits for withdrawals
\* is the sum of the amounts requested, whatever the status of the requests.
C11_DebitedOnce ==
    \A u \in Accounts :
        -SumRows(WithdrawalRows(u), transactions) = RequestedBy(u, Len(withdrawals))

\* C12: a withdrawal request that has left pending keeps its status.
C12_TerminalStatus ==
    [][\A w \in DOMAIN withdrawals :
          withdrawals[w].status # "pending"
          => withdrawals'[w].status = withdrawals[w].status]_vars

(***************************************************************************)
(* Refused debits.                                                         *)
(***************************************************************************)
\* The step is the return of an add_balance call that refused a debit.
AddBalanceRefuses(p) ==
    /\ procs[p].pc = "ab_write"
    /\ procs'[p].pc # "ab_write"
    /\ procs'[p].success = "insufficient"

\* C13: an add_balance call that fails for insufficient funds mutates
\* nothing: no balance changes, no ledger entry is written and no account row
\* is created.
C13_RefusedMutatesNothing ==
    [][\A p \in AllProcs : AddBalanceRefuses(p) => UNCHANGED <<users, transactions>>]_vars

\* The step belongs to a process_packet_mine whose debit of the sender failed:
\* the return of add_balance with a failure, or the handler's return after it.
SendFails(p) ==
    /\ procs[p].pc \in {"ab_write", "pm_after"}
    /\ procs[p].op = "process_packet_mine"
    /\ procs'[p] # procs[p]
    /\ procs'[p].success # "ok"

GrabCommits(p) ==
    /\ procs[p].pc = "grab_commit"
    /\ procs'[p].pc = "done"
    /\ procs'[p].answer = "grabbed"

\* 1.5 times the packet's total amount.
HazardPenalty(packet) == (3 * packet.total_amount) \div 2

\* The ledger with the entry of the claim itself.
ClaimEntered(f) ==
    AddRow(transactions, Transaction(f.user_id, f.grab_db, "grab", f.packet_id))

\* The ledger with the entry of the claim and the two entries of the penalty.
PenaltyEntered(f) ==
    AddRow(AddRow(ClaimEntered(f),
                  Transaction(f.user_id, -HazardPenalty(f.packet), "boom_penalty",
                              f.packet_id)),
           Transaction(f.packet.sender_id, HazardPenalty(f.packet), "boom_income",
                       f.packet_id))

\* C15: a claim whose derived digit equals the packet's mine number leaves the
\* claimer's balance lower by 1.5 times the packet's total beyond the claim
\* credit and the sender's balance higher by the same amount, with one
\* boom_penalty and one boom_income entry (claimer and sender being one
\* account, the two cancel); any other claim writes the claim entry only.
C15_HazardZeroSum ==
    [][\A p \in Procs : GrabCommits(p) =>
          LET f == procs[p]
              u == f.user_id
              sender == f.packet.sender_id
          IN  IF MineHit(f.packet, f.grab_db)
              THEN /\ transactions' = PenaltyEntered(f)
                   /\ IF sender = u
                      THEN users'[u].balance = users[u].balance + f.grab_db
                      ELSE /\ users'[u].balance =
                                  users[u].balance + f.grab_db - HazardPenalty(f.packet)
                           /\ users'[sender].balance =
                                  users[sender].balance + HazardPenalty(f.packet)
              ELSE transactions' = ClaimEntered(f)]_vars

\* C16: when the penalty would take the claimer's balance below zero it is
\* not collected (no boom_penalty entry, nothing for the sender), while the
\* claim stands: the amount drawn is credited and the slot is consumed.
C16_PenaltyRefused ==
    [][\A p \in Procs :
          LET f == procs[p]
              u == f.user_id
              sender == f.packet.sender_id
          IN  ( /\ GrabCommits(p)
                /\ MineHit(f.packet, f.grab_db)
                /\ sender # u
                /\ users[u].balance + f.grab_db - HazardPenalty(f.packet) < 0 )
              => /\ transactions' = ClaimEntered(f)
                 /\ users'[u].balance = users[u].balance + f.grab_db
                 /\ users'[sender] = users[sender]
                 /\ u \in Range(red_packets'[f.packet_id].claimed_users)]_vars

(***************************************************************************)
(* The draw of grab_packet.                                                *)
(***************************************************************************)
\* C17: no claim on an active packet with slots left aborts in the draw,
\* every claim that is paid credits at least 1, and after a claim the packet
\* holds at least 1 for every slot that remains.
C17_EveryClaimPays ==
    /\ \A p \in Procs :
          (procs[p].pc = "done" /\ procs[p].op = "grab_packet")
          => /\ procs[p].answer # "draw_error"
             /\ procs[p].answer = "grabbed" => procs[p].grab_db >= 1
    /\ \A pk \in DOMAIN red_packets :
          red_packets[pk].claimed_users # <<>>
          => red_packets[pk].remaining_amount >= red_packets[pk].remaining_count

(***************************************************************************)
(* Concurrent claims on one packet.                                        *)
(***************************************************************************)
\* C18: claims on a 2-slot packet without a mine are serialized: the packet
\* row a paid claim worked on is the committed row at its commit, and the
\* claim that finds one slot taken receives the whole remaining amount, after
\* which the ledger's claims for the packet sum to its distributable total
\* and the packet is finished with remaining amount 0 and remaining count 0.
C18_ClaimsSerialized ==
    [][\A p \in Procs :
          LET f == procs[p]
              pk == f.packet_id
          IN  ( /\ GrabCommits(p)
                /\ f.packet.total_count = 2
                /\ f.packet.mine_number = -1 )
              => /\ f.packet = red_packets[pk]
                 /\ Len(f.packet.claimed_users) = 1
                    => /\ f.grab_db = red_packets[pk].remaining_amount
                       /\ red_packets'[pk].remaining_amount = 0
                       /\ red_packets'[pk].remaining_count = 0
                       /\ red_packets'[pk].status = "finished"
                       /\ PoolClaimed(pk)' = red_packets[pk].total_amount]_vars

\* Two distinct accounts claimed from a 2-slot packet without a mine, the
\* second callback arriving while the first claim held the packet row: both
\* were paid, the amounts sum to the total and the packet is finished and empty.
C18_Witness ==
    \E p, q \in Procs :
        /\ procs[p].pc = "done" /\ procs[q].pc = "done"
        /\ procs[p].op = "grab_packet" /\ procs[q].op = "grab_packet"
        /\ procs[p].packet_id = procs[q].packet_id
        /\ procs[p].user_id # procs[q].user_id
        /\ procs[p].answer = "grabbed" /\ procs[q].answer = "grabbed"
        /\ procs[q].waited
        /\ LET packet == red_packets[procs[p].packet_id]
           IN  /\ packet.total_count = 2 /\ packet.mine_number = -1
               /\ packet.claimed_users = <<procs[p].user_id, procs[q].user_id>>
               /\ procs[p].grab_db + procs[q].grab_db = packet.total_amount
               /\ packet.status = "finished"
               /\ packet.remaining_amount = 0 /\ packet.remaining_count = 0

(***************************************************************************)
(* Reconciliation and crashes.                                             *)
(***************************************************************************)
\* A credit was made for the order.
Credited(o) == \E c \in BagToSet(credits) : c.order_id = o

\* The order is marked as paid and carries a transfer.
Completed(o) ==
    deposits[o].status \in {"completed", "success"} /\ deposits[o].tx_hash # NoTx

\* C19: after a crash in the middle of the reconciliation of a transfer, the
\* matched order is either credited and completed with the transfer attached,
\* or neither.
C19_CrashAtomic ==
    \A p \in {Watcher, Monitor}, o \in DOMAIN deposits :
        (\E op \in {"process_chain_txs", "process_deposit"} : procs[p] = Crashed(op, o))
        => (Credited(o) <=> Completed(o))

(***************************************************************************)
(* The status of a deposit order.                                          *)
(***************************************************************************)
DepositStatuses == {"pending", "completed", "rejected", "expired"}

\* C20: a deposit order's status is always one of pending, completed,
\* rejected, expired, and only a pending order changes status.
C20_StatusMachine ==
    [][\A o \in DOMAIN deposits :
          /\ deposits'[o].status \in DepositStatuses
          /\ deposits[o].status # "pending" =>
                deposits'[o].status = deposits[o].status]_vars

(***************************************************************************)
(* The refund sweep.                                                       *)
(***************************************************************************)
\* The sweep commits in this step.
SweepCommits ==
    /\ procs[Monitor].pc = "rf_commit"
    /\ procs'[Monitor] = Idle

\* The packet is active and older than the lifetime.
Stale(pk) ==
    red_packets[pk].status = "active" /\ red_packets[pk].created_at < clock - PacketTtl

\* What the refund of the stale packets of `u` comes to.
RECURSIVE StaleAmount(_, _)
StaleAmount(u, pks) ==
    IF pks = {} THEN 0
    ELSE LET pk == CHOOSE x \in pks : TRUE
             due == IF Stale(pk) /\ red_packets[pk].sender_id = u
                    THEN red_packets[pk].remaining_amount ELSE 0
         IN  due + StaleAmount(u, pks \ {pk})

\* The refund entry of a packet, and how many entries the step adds for it.
RefundRow(pk) ==
    Transaction(red_packets[pk].sender_id, red_packets[pk].remaining_amount, "refund", pk)

RefundsAdded(pk) ==
    CountRows({r \in BagToSet(transactions') : r.type = "refund" /\ r.note = pk},
              transactions')
    - CountRows(PoolRows(pk, "refund"), transactions)

\* C21: when the sweep commits, every packet that is active and too old
\* becomes refunded, its sender is credited its remaining_amount with one
\* refund entry (none when nothing remains), and every other packet is left
\* as it is, with no refund entry.
C21_SweeperRefund ==
    [][SweepCommits =>
         /\ \A pk \in DOMAIN red_packets :
               IF Stale(pk)
               THEN /\ red_packets'[pk] = [red_packets[pk] EXCEPT !.status = "refunded"]
                    /\ RefundsAdded(pk) =
                          IF red_packets[pk].remaining_amount > 0 THEN 1 ELSE 0
                    /\ red_packets[pk].remaining_amount > 0 =>
                          CopiesIn(RefundRow(pk), transactions')
                             = CopiesIn(RefundRow(pk), transactions) + 1
               ELSE /\ red_packets'[pk] = red_packets[pk]
                    /\ RefundsAdded(pk) = 0
         /\ \A u \in Accounts :
               users'[u].balance
                  = users[u].balance + StaleAmount(u, DOMAIN red_packets)]_vars

(***************************************************************************)
(* Credits of one deposit order.                                           *)
(***************************************************************************)
\* The credits made for one order, on every path.
CreditsOf(o) == CountRows({c \in BagToSet(credits) : c.order_id = o}, credits)

\* C22: a deposit order leads to at most one credit of its owner, whichever
\* paths complete it.
C22_OneCreditPerOrder == \A o \in DOMAIN deposits : CreditsOf(o) <= 1

(***************************************************************************)
(* Escrow of a packet's amount.                                            *)
(***************************************************************************)
\* The send_packet debits of one account, and the packets it sent.
SendRows(u) == {r \in LedgerRows(u) : r.type = "send_packet"}

PacketsOf(u) == {pk \in DOMAIN red_packets : red_packets[pk].sender_id = u}

\* C23: every packet has a send_packet debit of its sender whose amount less
\* the 5% fee is the packet's total; and after a crash while sending, with no
\* other send of the account under way, the account has as many send_packet
\* debits as packets.
C23_EscrowAtomic ==
    /\ \A pk \in DOMAIN red_packets :
          \E r \in SendRows(red_packets[pk].sender_id) :
              r.amount < 0 /\ PacketTotal(-r.amount) = red_packets[pk].total_amount
    /\ \A p \in Procs, u \in Accounts :
          ( /\ procs[p] = CrashedSend(u)
            /\ \A q \in Sending : procs[q].user_id # u )
          => CountRows(SendRows(u), transactions) = Cardinality(PacketsOf(u))

(***************************************************************************)
(* The risk gate and the refusals of grab_packet.                          *)
(***************************************************************************)
\* grab_packet answers with a refusal in this step.
GrabRefuses(p) ==
    /\ procs[p].pc = "grab_select"
    /\ procs'[p].pc = "done"
    /\ procs'[p].answer \in {"not_active", "already_claimed", "risk_gate"}

\* C24: a claim on a packet with a mine commits only for a claimer whose
\* balance is at least 5,000,000 at that time; and a claim refused as not
\* active, already claimed or blocked by the risk gate changes no packet, no
\* balance and no ledger entry.
C24_RiskGate ==
    [][\A p \in Procs :
          /\ (GrabCommits(p) /\ procs[p].packet.mine_number >= 0)
             => users[procs[p].user_id].balance >= RiskBalance
          /\ GrabRefuses(p)
             => /\ UNCHANGED <<red_packets, transactions>>
                /\ \A u \in Accounts : users'[u].balance = users[u].balance]_vars

(***************************************************************************)
(* The counters of a packet.                                               *)
(***************************************************************************)
\* C25: for every packet, the remaining count and amount stay within 0 and
\* the totals, the claimed set has total_count - remaining_count members, the
\* status is finished exactly when no slot remains, and a finished packet
\* holds no amount.
C25_PoolCounters ==
    \A pk \in DOMAIN red_packets :
        LET q == red_packets[pk]
        IN  /\ 0 <= q.remaining_count /\ q.remaining_count <= q.total_count
            /\ 0 <= q.remaining_amount /\ q.remaining_amount <= q.total_amount
            /\ Cardinality(Range(q.claimed_users)) = q.total_count - q.remaining_count
            /\ Len(q.claimed_users) = q.total_count - q.remaining_count
            /\ q.status = "finished" <=> q.remaining_count = 0
            /\ q.status = "finished" => q.remaining_amount = 0

(***************************************************************************)
(* The expiry sweep of deposit orders.                                     *)
(***************************************************************************)
\* The sweep commits in this step.
ExpiryCommits ==
    /\ procs[Monitor].pc = "mr_commit"
    /\ procs'[Monitor] = Idle

\* The process takes up a transfer and matches order `o` in this step.
Matches(p, o) ==
    /\ procs[p].pc = "idle"
    /\ procs'[p].pc # "idle"
    /\ procs'[p].op \in {"process_chain_txs", "process_deposit"}
    /\ procs'[p].order_id = o

\* C26: when the expiry sweep commits, exactly the orders that are pending
\* and older than the cutoff become expired and every other order, every
\* balance and every ledger entry is left as it is; and no transfer is
\* matched to an expired order.
C26_ExpireStale ==
    [][/\ ExpiryCommits
          => /\ \A o \in DOMAIN deposits :
                   deposits'[o] = IF o \in ExpiredOrders
                                  THEN [deposits[o] EXCEPT !.status = "expired"]
                                  ELSE deposits[o]
             /\ UNCHANGED <<users, transactions, credits>>
       /\ \A p \in {Watcher, Monitor}, o \in DOMAIN deposits :
             Matches(p, o) => deposits[o].status # "expired"]_vars

(***************************************************************************)
(* The notification of a deposit.                                          *)
(***************************************************************************)
\* C27: when the 'deposit confirmed' message of a transfer has been sent, the
\* order is committed as completed with that transfer.
C27_NotifyAfterCommit ==
    LET f == procs[Watcher]
    IN  (f.pc = "wc_commit" /\ f.notified = "sent")
        => /\ deposits[f.order_id].tx_hash = f.tx_hash
           /\ deposits[f.order_id].status \in {"completed", "success"}

(***************************************************************************)
(* The life of a packet.                                                   *)
(***************************************************************************)
\* C28: a packet that has left the active state keeps its status.
C28_PoolStatusFinal ==
    [][\A pk \in DOMAIN red_packets :
          red_packets[pk].status # "active"
          => red_packets'[pk].status = red_packets[pk].status]_vars

(***************************************************************************)
(* A withdrawal request that is accepted.                                  *)
(***************************************************************************)
\* create_withdrawal_request accepts the request in this step.
RequestAccepted(p) ==
    /\ procs[p].pc = "cw_write"
    /\ procs'[p].pc = "done"
    /\ procs'[p].success = "ok"

\* C29: an accepted withdrawal request has a positive amount, lowers the
\* owner's balance by that amount, writes one withdraw_freeze entry of
\* -amount and creates one pending request of that amount.
C29_AcceptedRequestDebits ==
    [][\A p \in Procs :
          LET u == procs[p].user_id
              amount == procs[p].amount
          IN  RequestAccepted(p)
              => /\ amount > 0
                 /\ users'[u].balance = users[u].balance - amount
                 /\ users'[u].balance <= users[u].balance
                 /\ transactions' = AddRow(transactions,
                        Transaction(u, -amount, "withdraw_freeze", "freeze"))
                 /\ withdrawals' = Append(withdrawals,
                                          Withdrawal(u, amount, "pending"))]_vars

====
